---- MODULE Spec2Model ----
(***************************************************************************)
(* Flashforge output device: the transfer state machine of                 *)
(* FlashforgeDevice.py (TcpClient and FlashforgeOutputDevice).             *)
(*                                                                         *)
(* Every signal of TcpClient and of its socket is connected directly, and  *)
(* TcpClient is a QWidget, which Qt keeps on the thread that created it:   *)
(* requestWrite and every slot run to completion on the host's event loop, *)
(* one at a time.  connected is emitted inside TcpClient.connect, so       *)
(* onConnect and startTransfer run inside requestWrite.  One action below  *)
(* is one such run.                                                        *)
(***************************************************************************)
EXTENDS Integers, Sequences, FiniteSets, TLC

(* ---------------- program constants ---------------- *)
MSGSIZE == 1460
HeaderThreshold == 3
FooterThreshold == 3
StartThreshold == 4
StatusThreshold == 8
MaxAttempts == 10
FooterLen == 6
StatusLen == 7
HeaderFixedLen == 16
StartFixedLen == 15
\* the size of the container's fixed header, the pointer to the thumbnail
GxHeaderSize == 58

(* ---------------- bounds of the model ---------------- *)
\* payload sizes 0..MaxPayload bytes
MaxPayload == 2
\* an inbound read carries 1..MaxChunk lines
MaxChunk == 8
\* lines that no threshold is waiting for (in Ready, in SendFile) are delivered
\* while the accumulated line counter stays within MaxStale
MaxStale == 3
\* writes whose bytesWritten is still outstanding
MaxUnacked == 2
\* length of the target file name
NameLen == 4
\* pieces in a G-code text
MaxPieces == 3
\* bytes of a thumbnail
MaxThumb == 2
\* whole chunks of MSGSIZE bytes in a payload given to sendData
MaxFullChunks == 2
\* pieces in a file name or a job name given to requestWrite
MaxNameParts == 4

\* target file names, as tokens; on the wire each one takes NameLen bytes
FileNames == {"name1", "name2"}

Stages == {"Ready", "SendHeader", "SendFile", "SendFooter", "SendStart", "CheckStatus"}

\* A response line is modelled by the state token it contains.
Lines == {"BUILDING_FROM_SD", "PAUSED", "ok"}

\* The errors QTcpSocket reports, by description.  A refused connection ends the
\* attempt to connect and a remote close ends the connection: the socket is then
\* unconnected by itself.  Any other error leaves the socket as it is.
Errors == {"ConnectionRefusedError", "RemoteHostClosedError", "UnknownSocketError"}

\* what can leave the encoding stage of requestWrite: nothing, Path(None, ...) when
\* the environment has no "temp", open() failing, encode("ascii") on a non-ASCII text
EncodeErrors == {"none", "TypeError", "OSError", "UnicodeEncodeError"}

Min(a, b) == IF a < b THEN a ELSE b

\* totalBytesSent is kept exactly up to TotalCap, one more than any payload, and
\* saturates there: it is only ever compared with tranferSize and divided by
\* _file_size, and every value above the payload size is "more than the payload".
TotalCap == MaxPayload + 1

\* the history of received lines is counted up to the largest threshold
RxCap == StatusThreshold

\* number of decimal digits of a payload size, as the f-string prints it
Digits(n) == IF n < 10 THEN 1 ELSE IF n < 100 THEN 2 ELSE IF n < 1000 THEN 3 ELSE 4

\* byte length of "~M28 <size> 0:/user/<name>\r\n"
HeaderLen(size) == HeaderFixedLen + Digits(size) + NameLen

\* byte length of "~M23 0:/user/<name>\r\n"
StartLen == StartFixedLen + NameLen

\* The inbound reads, 1..MaxChunk lines each, when k lines have been received since
\* the last write.  Two lines of a read can matter: its own third line, which the
\* handler looks at, and the line that is the third since the last write; every
\* other line is "ok".
Chunks(k) ==
    { [i \in 1..n |-> IF i = 3 THEN own ELSE IF i = 3 - k THEN third ELSE "ok"] :
      n \in 1..MaxChunk, own \in Lines, third \in Lines }

\* Outside CheckStatus the handler only counts the lines of a read.
PlainChunks == { [i \in 1..n |-> "ok"] : n \in 1..MaxChunk }

VARIABLES
    stage,            \* FlashforgeOutputDevice._stage
    attempts,         \* FlashforgeOutputDevice._attempts
    responseCounter,  \* FlashforgeOutputDevice.responseCounter
    message,          \* FlashforgeOutputDevice._message is a shown progress message
    file_size,        \* FlashforgeOutputDevice._file_size
    header,           \* FlashforgeOutputDevice._header: the size and the name in "~M28 ..."
    startCommand,     \* FlashforgeOutputDevice._startCommand: the name in "~M23 ..."
    postLen,          \* len(FlashforgeOutputDevice._postData)
    totalBytesSent,   \* TcpClient.totalBytesSent
    tranferSize,      \* TcpClient.tranferSize
    sock,             \* the QTcpSocket: "closed", "connecting", "connected"
    unacked,          \* writes accepted by the socket, bytesWritten not yet delivered
    last,             \* the last handler run: its input, the state it found, what it emitted
    session,          \* history: "running" from an accepted requestWrite to the session's end
    headers,          \* history: ~M28 commands written in the current session
    prevWrite,        \* history: the last write on the socket
    rxSince,          \* history: lines received since the last write on the socket
    rxThird,          \* history: the third of those lines, "" while there are fewer
    announced,        \* history: the size and the name in the last ~M28 written
    firstHeader,      \* history: the size and the name in the first ~M28 of the session
    job,              \* what requestWrite is given: the writer's text, the environment
    enc,              \* what the encoding stage of requestWrite left: _gcode, _gxcode, _postData
    runs,             \* a G-code text and its successive normalizations
    preferences,      \* the stored value of "flashforge/instances": the entries of a JSON object
    activeStack,      \* the id of the global container stack, "None" without one
    cfgLast,          \* the last settings operation and what it returned
    loop,             \* a run of the loop of TcpClient.sendData, write by write
    naming            \* a file name given to requestWrite and the target name made of it

vars == <<stage, attempts, responseCounter, message, file_size, header, startCommand,
          postLen, totalBytesSent, tranferSize, sock, unacked, last, session, headers,
          prevWrite, rxSince, rxThird, announced, firstHeader, job, enc, runs, preferences, activeStack, cfgLast,
          loop, naming>>

\* the fields of the device and of its client, and their history
devVars == <<stage, attempts, responseCounter, message, file_size, header, startCommand,
             postLen, totalBytesSent, tranferSize, sock, unacked, last, session, headers,
             prevWrite, rxSince, rxThird, announced, firstHeader>>

\* the variables of the payload encoding and of the settings store
encVars == <<job, enc, runs>>
cfgVars == <<preferences, activeStack, cfgLast>>
\* the variables of the functions that are followed on their own
pureVars == <<loop, naming>>

\* The fields of the two objects, and what the running handler has emitted so far.
Ctx ==
    [stage |-> stage, attempts |-> attempts, responseCounter |-> responseCounter,
     message |-> message, file_size |-> file_size, header |-> header,
     startCommand |-> startCommand, postLen |-> postLen,
     totalBytesSent |-> totalBytesSent,
     tranferSize |-> tranferSize, sock |-> sock, unacked |-> unacked,
     sent |-> <<>>, wire |-> <<>>, writeStarted |-> 0, writeError |-> 0, notices |-> <<>>,
     raised |-> "none", progress |-> <<>>, inspected |-> ""]

(* ---------------- TcpClient ---------------- *)

\* QTcpSocket.write: the bytes are buffered, bytesWritten follows from the event loop
socketWrite(c, what, n) ==
    [c EXCEPT !.unacked = Append(@, [what |-> what, n |-> n]),
              !.sent = Append(@, what)]

sendMessage(c, what, n) == socketWrite(c, what, n)

\* the loop of sendData from offset transmitted on
RECURSIVE sendLoop(_, _, _)
sendLoop(c, size, transmitted) ==
    IF transmitted < size
    THEN sendLoop(socketWrite(c, "data", Min(MSGSIZE, size - transmitted)),
                  size, transmitted + Min(MSGSIZE, size - transmitted))
    ELSE c

sendData(c, size) ==
    sendLoop([c EXCEPT !.tranferSize = size, !.totalBytesSent = 0], size, 0)

disconnect(c) == [c EXCEPT !.sock = "closed", !.unacked = <<>>]

(* ---------------- FlashforgeOutputDevice ---------------- *)

\* what a handler run has put on the wire: a command with the size and the file name
\* it carries, or the payload with its length
Wrote(what, size, name) == [what |-> what, size |-> size, name |-> name]

reset(c) == [c EXCEPT !.stage = "Ready", !.message = FALSE]

\* startTransfer that forgets to leave Ready
startTransfer_StageUnset(c) ==
    sendMessage([c EXCEPT !.attempts = @ + 1, !.message = TRUE,
                          !.wire = Append(@, Wrote("M28", c.header.size, c.header.name))],
                "M28", HeaderLen(c.header.size))

startTransfer(c) ==
    sendMessage([c EXCEPT !.attempts = @ + 1, !.message = TRUE, !.stage = "SendHeader",
                          !.wire = Append(@, Wrote("M28", c.header.size, c.header.name))],
                "M28", HeaderLen(c.header.size))

onConnect(c) == startTransfer(c)

\* TcpClient.connect: connectToHost (ignored by a socket that is not closed), then
\* connected is emitted at once
connect(c) == onConnect([c EXCEPT !.sock = IF @ = "closed" THEN "connecting" ELSE @])

onTransmitComplete(c) ==
    IF c.stage = "SendFile"
    THEN sendMessage([c EXCEPT !.stage = "SendFooter"], "M29", FooterLen)
    ELSE c

\* the slot raises on an empty payload; the emitter goes on
onUploadProgress(c, bytesSent) ==
    IF c.stage = "SendFile" /\ bytesSent > 0
    THEN IF c.file_size = 0
         THEN [c EXCEPT !.raised = "ZeroDivisionError"]
         ELSE [c EXCEPT !.progress = Append(@, [num |-> bytesSent * 100, den |-> c.file_size])]
    ELSE c

onProgress(c, payloadBytes) ==
    LET c1 == [c EXCEPT !.totalBytesSent = Min(@ + payloadBytes, TotalCap)]
        c2 == onUploadProgress(c1, c1.totalBytesSent)
    IN  IF c2.tranferSize # 0 /\ c2.totalBytesSent >= c2.tranferSize
        THEN onTransmitComplete([c2 EXCEPT !.tranferSize = 0])
        ELSE c2

\* the CheckStatus branch once the threshold is met; splitResponse is the read at
\* hand, and inspected the line the branch looks at, splitResponse[2] of the code
checkStatus(c, splitResponse) ==
    LET c0 == [c EXCEPT !.responseCounter = 0,
                        !.inspected = IF Len(splitResponse) < 3 THEN "" ELSE splitResponse[3]]
    IN  IF Len(splitResponse) < 3
        THEN [c0 EXCEPT !.raised = "IndexError"]
        ELSE IF splitResponse[3] = "BUILDING_FROM_SD"
        THEN disconnect(reset(c0))
        ELSE IF splitResponse[3] = "PAUSED"
        THEN sendMessage(c0, "M119", StatusLen)
        ELSE IF reset(c0).attempts < MaxAttempts
             THEN startTransfer(reset(c0))
             ELSE reset(c0)

onResponse(c, splitResponse) ==
    LET c1 == [c EXCEPT !.responseCounter = @ + Len(splitResponse)]
    IN  CASE c1.stage = "SendHeader" ->
               IF c1.responseCounter >= HeaderThreshold
               THEN sendData([c1 EXCEPT !.responseCounter = 0, !.stage = "SendFile",
                                        !.wire = Append(@, Wrote("data", c1.postLen, ""))],
                             c1.postLen)
               ELSE c1
          [] c1.stage = "SendFooter" ->
               IF c1.responseCounter >= FooterThreshold
               THEN sendMessage([c1 EXCEPT !.responseCounter = 0, !.stage = "SendStart",
                                           !.wire = Append(@, Wrote("M23", 0, c1.startCommand))],
                                "M23", StartLen)
               ELSE c1
          [] c1.stage = "SendStart" ->
               IF c1.responseCounter >= StartThreshold
               THEN sendMessage([c1 EXCEPT !.responseCounter = 0, !.stage = "CheckStatus"],
                                "M119", StatusLen)
               ELSE c1
          [] c1.stage = "CheckStatus" ->
               IF c1.responseCounter >= StatusThreshold
               THEN checkStatus(c1, splitResponse)
               ELSE c1
          [] OTHER -> c1

\* onNetworkError that reports the error and leaves the stage as it is
onNetworkError_KeepsStage(c, error) ==
    [c EXCEPT !.message = FALSE, !.notices = Append(@, error), !.writeError = @ + 1]

onNetworkError(c, error) ==
    [c EXCEPT !.message = FALSE, !.notices = Append(@, error),
              !.writeError = @ + 1, !.stage = "Ready"]

\* requestWrite without the busy check
requestWrite_NoBusyCheck(c, size, name, writerOk, raised) ==
    IF raised # "none"
    THEN [c EXCEPT !.writeStarted = 1,
                   !.writeError = IF writerOk THEN 0 ELSE 1,
                   !.raised = raised]
    ELSE connect([c EXCEPT !.writeStarted = 1,
                           !.writeError = IF writerOk THEN 0 ELSE 1,
                           !.attempts = 0,
                           !.postLen = size,
                           !.file_size = size,
                           !.header = [size |-> size, name |-> name],
                           !.startCommand = name])

\* requestWrite that does not rebuild _startCommand
requestWrite_StaleStartCommand(c, size, name, writerOk, raised) ==
    IF c.stage # "Ready"
    THEN [c EXCEPT !.raised = "DeviceBusyError"]
    ELSE IF raised # "none"
    THEN [c EXCEPT !.writeStarted = 1,
                   !.writeError = IF writerOk THEN 0 ELSE 1,
                   !.raised = raised]
    ELSE connect([c EXCEPT !.writeStarted = 1,
                           !.writeError = IF writerOk THEN 0 ELSE 1,
                           !.attempts = 0,
                           !.postLen = size,
                           !.file_size = size,
                           !.header = [size |-> size, name |-> name]])

\* writerOk is what codeWriter.write returned; raised is the exception that left
\* formatGCode or the encoding of the raw text ("none" if they returned), size the
\* length of the payload they produced, name the target file name.  An exception
\* leaves requestWrite before _attempts, _postData, _file_size, _header and
\* _startCommand are assigned and before client.connect().
requestWrite(c, size, name, writerOk, raised) ==
    IF c.stage # "Ready"
    THEN [c EXCEPT !.raised = "DeviceBusyError"]
    ELSE IF raised # "none"
    THEN [c EXCEPT !.writeStarted = 1,
                   !.writeError = IF writerOk THEN 0 ELSE 1,
                   !.raised = raised]
    ELSE connect([c EXCEPT !.writeStarted = 1,
                           !.writeError = IF writerOk THEN 0 ELSE 1,
                           !.attempts = 0,
                           !.postLen = size,
                           !.file_size = size,
                           !.header = [size |-> size, name |-> name],
                           !.startCommand = name])

(* ---------------- the state machine ---------------- *)

Count(seq, x) == Cardinality({i \in 1..Len(seq) : seq[i] = x})

\* the record of a handler run: op ran with input arg in the state (from, attempts0),
\* rx lines had then been received since the last write, the third of them being third
Run(c, op, arg, rx, third) ==
    [op |-> op, arg |-> arg, from |-> stage, attempts0 |-> attempts,
     rx |-> rx, third |-> third,
     sent |-> c.sent, writeStarted |-> c.writeStarted, writeError |-> c.writeError,
     notices |-> c.notices, raised |-> c.raised, progress |-> c.progress,
     inspected |-> c.inspected, wire |-> c.wire]

\* the size and the name of the last ~M28 in wire, else what was known before
LastHeader(wire, before) ==
    LET at == {i \in 1..Len(wire) : wire[i].what = "M28"}
    IN  IF at = {} THEN before
        ELSE LET w == wire[CHOOSE i \in at : \A j \in at : j <= i]
             IN  [size |-> w.size, name |-> w.name]

\* the state of the device after a handler run that left c
CommitDevice(c, op, arg, rx, third) ==
    LET starts == c.writeStarted = 1 /\ c.raised = "none"
        ends == \/ op = "onNetworkError"
                \/ op = "onResponse" /\ stage # "Ready" /\ c.stage = "Ready"
    IN  /\ stage' = c.stage
        /\ attempts' = c.attempts
        /\ responseCounter' = c.responseCounter
        /\ message' = c.message
        /\ file_size' = c.file_size
        /\ header' = c.header
        /\ startCommand' = c.startCommand
        /\ postLen' = c.postLen
        /\ totalBytesSent' = c.totalBytesSent
        /\ tranferSize' = c.tranferSize
        /\ sock' = c.sock
        /\ unacked' = c.unacked
        /\ last' = Run(c, op, arg, rx, third)
        /\ session' = IF ends THEN "none" ELSE IF starts THEN "running" ELSE session
        /\ headers' = (IF starts \/ session = "none" THEN 0 ELSE headers) + Count(c.sent, "M28")
        /\ prevWrite' = IF c.sent # <<>> THEN c.sent[Len(c.sent)] ELSE prevWrite
        /\ rxSince' = IF c.sent # <<>> \/ c.sock = "closed" THEN 0 ELSE rx
        /\ rxThird' = IF c.sent # <<>> \/ c.sock = "closed" THEN "" ELSE third
        /\ announced' = LastHeader(c.wire, announced)
        /\ firstHeader' = IF starts THEN LastHeader(c.wire, firstHeader) ELSE firstHeader

\* a handler run of the transfer: the encoding and the settings are not touched
Commit(c, op, arg, rx, third) ==
    /\ CommitDevice(c, op, arg, rx, third)
    /\ UNCHANGED encVars
    /\ UNCHANGED cfgVars
    /\ UNCHANGED pureVars

\* no job has been encoded
NoJob == [gcode |-> <<>>, temp |-> "ok", thumb |-> [some |-> FALSE, data |-> <<>>],
          materialLengths |-> <<>>, materialNames |-> <<>>, writerOk |-> TRUE]
NoEnc == [done |-> FALSE, gcode |-> <<>>, gxcode |-> [some |-> FALSE, data |-> <<>>],
          postData |-> <<>>, raised |-> "none"]
\* sendData has not been called, no name has been made
NoLoop == [running |-> FALSE, size |-> 0, transmitted |-> 0, offered |-> 0,
           accepted |-> 0, inOrder |-> TRUE, partial |-> FALSE]
NoNaming == [done |-> FALSE, file_name |-> <<>>, jobName |-> <<>>, gx |-> FALSE,
             target |-> <<>>]
\* no settings operation has run
NoCfg == [op |-> "init", id |-> "None", address |-> <<>>, before |-> {}, stack |-> "None",
          returned |-> [found |-> FALSE, address |-> <<>>]]

\* no header has been built
NoHeader == [size |-> 0, name |-> ""]

\* FlashforgeOutputDevice and its TcpClient after construction
InitDevice ==
    /\ stage = "Ready"
    /\ attempts = 0
    /\ responseCounter = 0
    /\ message = FALSE
    /\ file_size = 0
    /\ header = NoHeader
    /\ startCommand = ""
    /\ postLen = 0
    /\ totalBytesSent = 0
    /\ tranferSize = 0
    /\ sock = "closed"
    /\ unacked = <<>>
    /\ last = [op |-> "init", arg |-> "", from |-> "Ready", attempts0 |-> 0,
               rx |-> 0, third |-> "",
               sent |-> <<>>, writeStarted |-> 0, writeError |-> 0, notices |-> <<>>,
               raised |-> "none", progress |-> <<>>, inspected |-> "", wire |-> <<>>]
    /\ session = "none"
    /\ headers = 0
    /\ prevWrite = ""
    /\ rxSince = 0
    /\ rxThird = ""
    /\ announced = NoHeader
    /\ firstHeader = NoHeader

Init ==
    /\ InitDevice
    /\ job = NoJob
    /\ enc = NoEnc
    /\ runs = <<>>
    /\ preferences = {}
    /\ activeStack = "None"
    /\ cfgLast = NoCfg
    /\ loop = NoLoop
    /\ naming = NoNaming

\* What requestWrite is called with and what its encoding stage does.  A busy device
\* raises before it looks at any of it, and an exception of the encoding stage
\* leaves before the payload and the name are used: one input stands for all there.
RequestInputs ==
    IF stage # "Ready"
    THEN {[size |-> 0, name |-> "name1", writerOk |-> TRUE, raised |-> "none"]}
    ELSE {[size |-> n, name |-> f, writerOk |-> w, raised |-> "none"] :
             n \in 0..MaxPayload, f \in FileNames, w \in BOOLEAN}
         \cup {[size |-> 0, name |-> "name1", writerOk |-> w, raised |-> r] :
                  w \in BOOLEAN, r \in EncodeErrors \ {"none"}}

\* the caller asks for an upload; the encoding stage returns a payload of size bytes
\* or lets an exception through
RequestWrite ==
    \E in \in RequestInputs :
        /\ Len(unacked) < MaxUnacked
        /\ Commit(requestWrite(Ctx, in.size, in.name, in.writerOk, in.raised),
                  "requestWrite", "",
                  rxSince, rxThird)

\* the socket reaches the connected state
SocketConnected ==
    /\ sock = "connecting"
    /\ Commit([Ctx EXCEPT !.sock = "connected"], "socketConnected", "", rxSince, rxThird)

\* readyRead: receiveMessage hands the read to onResponse
Response ==
    \E chunk \in (IF stage = "CheckStatus" THEN Chunks(rxSince) ELSE PlainChunks) :
        LET rx == Min(rxSince + Len(chunk), RxCap)
            third == IF rxSince < 3 /\ rxSince + Len(chunk) >= 3
                     THEN chunk[3 - rxSince] ELSE rxThird
            c == onResponse(Ctx, chunk)
        IN  /\ sock = "connected"
            /\ Len(unacked) < MaxUnacked
            /\ stage \in {"Ready", "SendFile"} => c.responseCounter <= MaxStale
            /\ Commit(c, "onResponse", "", rx, third)

\* bytesWritten: payloadBytes of the oldest outstanding write have left the buffer
BytesWritten ==
    /\ sock = "connected"
    /\ unacked # <<>>
    /\ \E n \in {Head(unacked).n} \cup (IF Head(unacked).what = "data" THEN {1} ELSE {}) :
          LET rest == IF n = Head(unacked).n
                      THEN Tail(unacked)
                      ELSE <<[Head(unacked) EXCEPT !.n = @ - n]>> \o Tail(unacked)
          IN  Commit(onProgress([Ctx EXCEPT !.unacked = rest], n), "onProgress", "",
                     rxSince, rxThird)

\* errorOccurred: handleError hands the description to onNetworkError
NetworkError ==
    \E error \in Errors :
        /\ sock # "closed"
        /\ error = "ConnectionRefusedError" => sock = "connecting"
        /\ error = "RemoteHostClosedError" => sock = "connected"
        /\ Commit(onNetworkError(IF error = "UnknownSocketError"
                                 THEN Ctx
                                 ELSE [Ctx EXCEPT !.sock = "closed", !.unacked = <<>>],
                                 error),
                  "onNetworkError", error, rxSince, rxThird)

Next ==
    \/ RequestWrite
    \/ SocketConnected
    \/ Response
    \/ BytesWritten
    \/ NetworkError

Spec == Init /\ [][Next]_vars

(* ---------------- sanity ---------------- *)

TypeOK ==
    /\ stage \in Stages
    /\ attempts \in 0..MaxAttempts
    /\ responseCounter \in 0..(MaxStale + StatusThreshold)
    /\ message \in BOOLEAN
    /\ file_size \in 0..MaxPayload
    /\ totalBytesSent \in 0..TotalCap
    /\ tranferSize \in 0..MaxPayload
    /\ sock \in {"closed", "connecting", "connected"}
    /\ Len(unacked) <= MaxUnacked + 1
    /\ session \in {"none", "running"}

(* ---------------- claims ---------------- *)

\* the fields of the two objects
devState == <<stage, attempts, responseCounter, message, file_size, header, startCommand,
              postLen, totalBytesSent, tranferSize, sock, unacked>>

\* C1: a requestWrite issued while the stage is not Ready raises DeviceBusyError and
\* changes nothing: stage, attempt counter, response-line counter, payload size and
\* socket are as before, no write-started event is emitted, nothing is written and
\* no connection is opened.
C1_BusyRejected ==
    [][(last'.op = "requestWrite" /\ stage # "Ready")
        => /\ last'.raised = "DeviceBusyError"
           /\ last'.writeStarted = 0
           /\ last'.writeError = 0
           /\ last'.sent = <<>>
           /\ UNCHANGED devState]_vars

C1_Witness ==
    /\ last.op = "requestWrite"
    /\ last.raised = "DeviceBusyError"
    /\ stage = "SendFile"
    /\ unacked # <<>>

\* C2: from an accepted requestWrite until the session ends (success, terminal
\* failure or network error) every requestWrite is rejected and writes no header.
C2_OneSession ==
    [][(session = "running" /\ last'.op = "requestWrite")
        => /\ last'.raised = "DeviceBusyError"
           /\ last'.sent = <<>>
           /\ headers' = headers
           /\ session' = "running"]_vars

C2_Witness ==
    /\ session = "running"
    /\ last.op = "requestWrite"
    /\ last.raised = "DeviceBusyError"
    /\ last.from = "SendHeader"
    /\ attempts = 2

\* C9: a connection error reported in SendHeader, SendFile, SendFooter, SendStart or
\* CheckStatus leaves the stage Ready, shows exactly one notification, which carries
\* the error's description, emits exactly one write-error event, starts no retry and
\* writes nothing; and while no session is running, no response and no write
\* acknowledgment makes the machine write a command or a payload byte.
C9_NetworkErrorAborts ==
    /\ [](last.op = "onNetworkError" /\ last.from # "Ready"
          => /\ stage = "Ready"
             /\ session = "none"
             /\ last.notices = <<last.arg>>
             /\ last.writeError = 1
             /\ last.sent = <<>>
             /\ attempts = last.attempts0)
    /\ [][(session = "none" /\ last'.op \in {"onResponse", "onProgress"})
           => (last'.sent = <<>> /\ stage' = "Ready")]_vars

C9_Witness ==
    /\ last.op = "onResponse"
    /\ session = "none"
    /\ sock = "connected"
    /\ attempts = 3
    /\ tranferSize # 0

\* a handler run in CheckStatus during which the 8th line since ~M119 arrives: the
\* status response is complete, and last'.third is its third line
StatusComplete ==
    /\ stage = "CheckStatus"
    /\ last'.op = "onResponse"
    /\ rxSince < StatusThreshold
    /\ last'.rx >= StatusThreshold

\* the same, with the whole response in the one read
StatusInOneRead == StatusComplete /\ rxSince = 0

\* the order of the writes of one attempt
Follows(prev, cur) ==
    CASE cur = "M28" -> TRUE
      [] cur = "data" -> prev \in {"M28", "data"}
      [] cur = "M29" -> prev = "data" \/ (prev = "M28" /\ file_size = 0)
      [] cur = "M23" -> prev = "M29"
      [] cur = "M119" -> prev \in {"M23", "M119"}

\* the payload writes of the current attempt that are still unacknowledged
UnackedData(q) ==
    {i \in 1..Len(q) : q[i].what = "data" /\ \A j \in i..Len(q) : q[j].what # "M28"}

\* C3: within an attempt the writes go out in the order ~M28, payload, ~M29, ~M23,
\* ~M119; payload is written only when 3 lines have been received since ~M28, ~M29
\* only when every payload byte of the attempt is acknowledged, ~M23 only when 3
\* lines have been received since ~M29, the first ~M119 only when 4 lines have been
\* received since ~M23.
C3_StrictlyLinear ==
    [][/\ \A i \in 1..Len(last'.sent) :
             Follows(IF i = 1 THEN prevWrite ELSE last'.sent[i - 1], last'.sent[i])
       /\ Count(last'.sent, "data") > 0 => last'.rx >= HeaderThreshold
       /\ Count(last'.sent, "M29") > 0 => UnackedData(unacked') = {}
       /\ Count(last'.sent, "M23") > 0 => last'.rx >= FooterThreshold
       /\ (Count(last'.sent, "M119") > 0 /\ prevWrite = "M23") => last'.rx >= StartThreshold
      ]_vars

\* C4: a read handled in SendHeader moves the machine to SendFile, and starts the
\* payload, exactly when 3 lines have been received since the header was written;
\* with fewer the machine stays in SendHeader and writes nothing.
C4_HeaderThreshold ==
    (last.op = "onResponse" /\ last.from = "SendHeader")
    => /\ (stage = "SendFile") <=> (last.rx >= HeaderThreshold)
       /\ last.rx < HeaderThreshold => (stage = "SendHeader" /\ last.sent = <<>>)
       /\ (last.rx >= HeaderThreshold /\ file_size > 0) => Count(last.sent, "data") > 0

\* C5: a complete status response whose third line is neither BUILDING_FROM_SD nor
\* PAUSED restarts from SendHeader with a new ~M28 while the attempt count is below
\* 10, and ends in Ready with nothing written when it is 10; no session writes ~M28
\* more than 10 times and the attempt counter never exceeds 10.
C5_RetryBudget ==
    /\ [][(StatusComplete /\ last'.third \notin {"BUILDING_FROM_SD", "PAUSED"})
           => IF attempts < MaxAttempts
              THEN /\ stage' = "SendHeader"
                   /\ last'.sent = <<"M28">>
                   /\ attempts' = attempts + 1
              ELSE /\ stage' = "Ready"
                   /\ last'.sent = <<>>]_vars
    /\ [](attempts <= MaxAttempts /\ headers <= MaxAttempts)

\* C6: the run that gives up (a failed status at attempt count 10, back to Ready)
\* emits a write-error event.
C6_GiveUpSurfaced ==
    (/\ last.op = "onResponse"
     /\ last.from = "CheckStatus"
     /\ last.attempts0 = MaxAttempts
     /\ last.rx >= StatusThreshold
     /\ last.third \notin {"BUILDING_FROM_SD", "PAUSED"}
     /\ stage = "Ready")
    => last.writeError >= 1

\* C7: a complete status response whose third line is PAUSED keeps the stage at
\* CheckStatus, writes ~M119 once and nothing else, and leaves the attempt counter
\* and the number of headers as they are.
C7_PausedPolls ==
    [][(StatusComplete /\ last'.third = "PAUSED")
        => /\ stage' = "CheckStatus"
           /\ last'.sent = <<"M119">>
           /\ attempts' = attempts
           /\ headers' = headers]_vars

\* C8: a complete status response whose third line is BUILDING_FROM_SD ends the
\* session: the stage is Ready, the socket is closed, nothing is written and the
\* attempt counter is as it was.
C8_BuildingEnds ==
    [][(StatusComplete /\ last'.third = "BUILDING_FROM_SD")
        => /\ stage' = "Ready"
           /\ sock' = "closed"
           /\ session' = "none"
           /\ last'.sent = <<>>
           /\ attempts' = attempts]_vars

\* C10: the machine is Ready exactly when the socket is closed: Ready after a
\* session has ended means the connection has been closed, and any other stage
\* means it is open or being opened.
C10_SessionIffConnection ==
    (stage = "Ready") <=> (sock = "closed")

(* ---------------- what the code does guarantee ---------------- *)

\* When the whole status response arrives in one read, the three CheckStatus
\* branches do what C5, C7 and C8 say.
StatusBranchesInOneRead ==
    [][StatusInOneRead
        => CASE last'.third = "BUILDING_FROM_SD" ->
                  stage' = "Ready" /\ sock' = "closed" /\ last'.sent = <<>>
             [] last'.third = "PAUSED" ->
                  stage' = "CheckStatus" /\ last'.sent = <<"M119">> /\ attempts' = attempts
             [] OTHER ->
                  IF attempts < MaxAttempts
                  THEN stage' = "SendHeader" /\ last'.sent = <<"M28">>
                       /\ attempts' = attempts + 1
                  ELSE stage' = "Ready" /\ last'.sent = <<>>]_vars

\* The attempt counter and the headers of a session never exceed the budget.
BudgetBound == attempts <= MaxAttempts /\ headers <= MaxAttempts

\* Any stage other than Ready has the socket open or being opened.
BusyHasConnection == stage # "Ready" => sock # "closed"

\* A running session is never Ready.
RunningIsBusy == session = "running" <=> stage # "Ready"

\* a read handled in CheckStatus that meets the threshold of 8 accumulated lines
StatusThresholdMet ==
    /\ stage = "CheckStatus"
    /\ last'.op = "onResponse"
    /\ responseCounter' = 0

\* C22: when the CheckStatus threshold is met, the handler does not fail and the line
\* it inspects is the third line received since ~M119 was written, however the
\* lines were split across reads.
C22_ThirdLineInspected ==
    [][StatusThresholdMet
        => /\ last'.raised = "none"
           /\ last'.inspected = last'.third]_vars

\* the same when the status response arrives in one read
ThirdLineInspectedInOneRead ==
    [][(StatusThresholdMet /\ rxSince = 0 /\ responseCounter = 0)
        => /\ last'.raised = "none"
           /\ last'.inspected = last'.third]_vars

\* the machine is in SendFile only while payload bytes of the attempt are
\* unacknowledged, and ~M29 is written once, on the way from SendFile to SendFooter
FooterAfterPayload ==
    /\ stage' = "SendFile" => UnackedData(unacked') # {}
    /\ Count(last'.sent, "M29") > 0
         => /\ Count(last'.sent, "M29") = 1
            /\ stage = "SendFile"
            /\ stage' = "SendFooter"

\* C23: for every payload size, the empty payload included, once every payload byte
\* is acknowledged the machine is in SendFooter and has written ~M29 once in the
\* attempt; it is never in SendFile with no payload byte left to acknowledge.
C23_FooterFollowsPayload ==
    [][FooterAfterPayload]_vars

\* the same for a payload that is not empty
FooterFollowsNonEmptyPayload ==
    [][file_size' > 0 => FooterAfterPayload]_vars

\* the handler run has written a command whose acknowledgment the machine waits for
CommandWritten ==
    \E i \in 1..Len(last'.sent) : last'.sent[i] \in {"M28", "M29", "M23", "M119"}

\* C24: whenever the machine starts waiting for an acknowledgment (a command has been
\* written on entering SendHeader, SendFooter, SendStart or CheckStatus, in a first
\* attempt, a retry or a later session) the accumulated line counter is zero.
C24_CounterZeroOnWait ==
    [][CommandWritten => responseCounter' = 0]_vars

\* the counter is zero whenever onResponse itself has written the command
CounterZeroAfterThreshold ==
    [][(CommandWritten /\ last'.op = "onResponse") => responseCounter' = 0]_vars

\* C26: in every attempt the payload streamed has the size the attempt's ~M28
\* announced and ~M23 names the file ~M28 named; a retry announces the size and the
\* name of the session's first attempt.
C26_HeaderMatchesPayload ==
    [][\A i \in 1..Len(last'.wire) :
          LET w == last'.wire[i]
          IN  /\ w.what = "data" => w.size = announced.size
              /\ w.what = "M23" => w.name = announced.name
              /\ (w.what = "M28" /\ last'.op = "onResponse")
                    => [size |-> w.size, name |-> w.name] = firstHeader
      ]_vars

\* the second attempt of a session has streamed a payload of MaxPayload bytes and
\* has written ~M23
C26_Witness ==
    /\ stage = "SendStart"
    /\ attempts = 2
    /\ last.op = "onResponse"
    /\ Len(last.wire) = 1
    /\ last.wire[1].what = "M23"
    /\ last.wire[1].name = "name2"
    /\ postLen = MaxPayload

\* C28: ~M28 is written only on an established connection: startTransfer never runs
\* while the socket is still connecting or after the attempt to connect has failed.
C28_HeaderAfterConnected ==
    [][Count(last'.sent, "M28") > 0 => sock' = "connected"]_vars

\* the ~M28 of a retry is written on the established connection
RetryHeaderOnConnection ==
    [][(Count(last'.sent, "M28") > 0 /\ last'.op = "onResponse")
         => sock' = "connected"]_vars

(* ---------------- termination ---------------- *)

\* The printer answers and the socket acknowledges: a read that is due is eventually
\* delivered (readyRead), written bytes are eventually acknowledged (bytesWritten) and
\* a connection being opened is eventually established.  Socket errors and further
\* write requests are not forced.
FairSpec == Spec /\ WF_vars(Response) /\ WF_vars(BytesWritten) /\ WF_vars(SocketConnected)

\* C11: under fairness of the responses and of the write acknowledgments every session
\* started by requestWrite eventually returns to Ready (the session ends).
C11_EverySessionEnds == (session = "running") ~> (stage = "Ready")

(* ---------------- progress ---------------- *)

\* C12: the percentages reported while in SendFile never decrease (the previous report
\* of the attempt was totalBytesSent * 100 / file_size), never exceed 100, are exactly
\* 100 when the last payload byte is acknowledged, and are not moved by the
\* acknowledgment of a command.
C12_ProgressOfPayload ==
    [][(last'.op = "onProgress" /\ stage = "SendFile") =>
          \A i \in 1..Len(last'.progress) :
              LET p == last'.progress[i] IN
              /\ p.num >= totalBytesSent * 100
              /\ p.num <= 100 * p.den
              /\ (Head(unacked).what # "data" => p.num = totalBytesSent * 100)
              /\ (Head(unacked).what = "data" /\ UnackedData(unacked') = {}
                      => p.num = 100 * p.den)]_vars

\* the same for the acknowledgments of payload bytes received once the commands
\* written before the payload have been acknowledged
ProgressOfPayloadAcks ==
    [][(last'.op = "onProgress" /\ stage = "SendFile" /\ Head(unacked).what = "data"
            /\ totalBytesSent < tranferSize /\ tranferSize = file_size
            /\ \A j \in 1..Len(unacked) : unacked[j].what = "data") =>
          \A i \in 1..Len(last'.progress) :
              LET p == last'.progress[i] IN
              /\ p.num >= totalBytesSent * 100
              /\ p.num <= 100 * p.den
              /\ (UnackedData(unacked') = {} => p.num = 100 * p.den)]_vars

(* ---------------- G-code text ---------------- *)

\* A text is a sequence of characters, each a string of one character; "deg" stands
\* for the degree sign, a character outside ASCII.
Digit == {"0", "1", "2", "3", "4", "5", "6", "7", "8", "9"}

\* pat occurs in t at position i
StartsWith(t, i, pat) ==
    /\ i + Len(pat) - 1 <= Len(t)
    /\ \A k \in 1..Len(pat) : t[i + k - 1] = pat[k]

\* \d* from position i: the position after the digits
RECURSIVE DigitsEnd(_, _)
DigitsEnd(t, i) == IF i <= Len(t) /\ t[i] \in Digit THEN DigitsEnd(t, i + 1) ELSE i

\* the position of the first line feed at or after i, Len(t) + 1 without one
RECURSIVE LineEnd(_, _)
LineEnd(t, i) == IF i <= Len(t) /\ t[i] # "\n" THEN LineEnd(t, i + 1) ELSE i

TxtM140S == <<"M", "1", "4", "0", " ", "S">>
TxtM104S == <<"M", "1", "0", "4", " ", "S">>
TxtM106S == <<"M", "1", "0", "6", " ", "S">>
TxtT0 == <<" ", "T", "0">>
TxtG0 == <<"G", "0", " ">>
TxtG1 == <<"G", "1", " ">>

\* r"(M1(?:40|04) S\d+)(?:\.\d+)?(?: T\d)?" matches at i; group 1 ends before
\* TempGroupEnd, the optional fraction before FractionEnd, the optional index, of one
\* digit, before IndexEnd
TempMatches(t, i) ==
    /\ StartsWith(t, i, TxtM140S) \/ StartsWith(t, i, TxtM104S)
    /\ i + 6 <= Len(t)
    /\ t[i + 6] \in Digit
TempGroupEnd(t, i) == DigitsEnd(t, i + 6)
FractionEnd(t, e) ==
    IF e + 1 <= Len(t) /\ t[e] = "." /\ t[e + 1] \in Digit THEN DigitsEnd(t, e + 1) ELSE e
IndexEnd(t, e) ==
    IF e + 2 <= Len(t) /\ t[e] = " " /\ t[e + 1] = "T" /\ t[e + 2] \in Digit
    THEN e + 3 ELSE e

\* re.sub(r"(M1(?:40|04) S\d+)(?:\.\d+)?(?: T\d)?", r"\1 T0", t), from position i
RECURSIVE subTemp(_, _)
subTemp(t, i) ==
    IF i > Len(t) THEN <<>>
    ELSE IF TempMatches(t, i)
    THEN SubSeq(t, i, TempGroupEnd(t, i) - 1) \o TxtT0
             \o subTemp(t, IndexEnd(t, FractionEnd(t, TempGroupEnd(t, i))))
    ELSE <<t[i]>> \o subTemp(t, i + 1)

\* r"(M106 S\d+)\.\d+" matches at i: \d+ takes every digit, a point and a digit follow
FanMatches(t, i) ==
    /\ StartsWith(t, i, TxtM106S)
    /\ i + 6 <= Len(t)
    /\ t[i + 6] \in Digit
    /\ FractionEnd(t, DigitsEnd(t, i + 6)) > DigitsEnd(t, i + 6)

\* re.sub(r"(M106 S\d+)\.\d+", r"\1", t), from position i
RECURSIVE subFan(_, _)
subFan(t, i) ==
    IF i > Len(t) THEN <<>>
    ELSE IF FanMatches(t, i)
    THEN SubSeq(t, i, DigitsEnd(t, i + 6) - 1)
             \o subFan(t, FractionEnd(t, DigitsEnd(t, i + 6)))
    ELSE <<t[i]>> \o subFan(t, i + 1)

\* re.sub(r"^G0 (.*)", r"G1 \1", t): no re.MULTILINE flag, so ^ matches at the start
\* of the text only; (.*) runs to the end of the first line
subG0(t) ==
    IF StartsWith(t, 1, TxtG0)
    THEN TxtG1 \o SubSeq(t, 4, LineEnd(t, 4) - 1) \o SubSeq(t, LineEnd(t, 4), Len(t))
    ELSE t

\* the three substitutions of formatGCode, in its order
normalize(t) == subG0(subFan(subTemp(t, 1), 1))

\* the pieces the texts are made of
Pieces == {<<"M", "1", "0", "4", " ", "S", "2">>, <<"M", "1", "4", "0", " ", "S", "6">>, <<"M", "1", "0", "6", " ", "S", "9">>,
           <<".", "5">>, <<" ", "T", "1">>, <<"0">>, <<"G", "0", " ", "X">>, <<"\n">>}

RECURSIVE TextsOf(_)
TextsOf(n) ==
    IF n = 0 THEN {<<>>}
    ELSE LET T == TextsOf(n - 1) IN T \cup {t \o p : t \in T, p \in Pieces}

Texts == TextsOf(MaxPieces)

\* a text is given and normalized, and the result is normalized again
InitNormalize ==
    /\ InitDevice
    /\ job = NoJob
    /\ enc = NoEnc
    /\ runs \in {<<t>> : t \in Texts}
    /\ preferences = {}
    /\ activeStack = "None"
    /\ cfgLast = NoCfg
    /\ loop = NoLoop
    /\ naming = NoNaming

Normalize ==
    /\ Len(runs) < 3
    /\ runs' = Append(runs, normalize(runs[Len(runs)]))
    /\ UNCHANGED <<stage, attempts, responseCounter, message, file_size, totalBytesSent,
                   tranferSize, sock, unacked, last, session, headers, prevWrite,
                   rxSince, rxThird, header, startCommand, postLen, announced,
                   firstHeader, job, enc>>
    /\ UNCHANGED cfgVars
    /\ UNCHANGED pureVars

NormalizeSpec == InitNormalize /\ [][Normalize]_vars

(* ---------------- metadata extraction ---------------- *)

\* the printable ASCII characters, from the space (32) to the tilde (126); "backtick"
\* stands for the grave accent (96)
Printable ==
    <<" ", "!", "\"", "#", "$", "%", "&", "'", "(", ")", "*", "+",
      ",", "-", ".", "/", "0", "1", "2", "3", "4", "5", "6", "7",
      "8", "9", ":", ";", "<", "=", ">", "?", "@", "A", "B", "C",
      "D", "E", "F", "G", "H", "I", "J", "K", "L", "M", "N", "O",
      "P", "Q", "R", "S", "T", "U", "V", "W", "X", "Y", "Z", "[",
      "\\", "]", "^", "_", "backtick", "a", "b", "c", "d", "e", "f", "g",
      "h", "i", "j", "k", "l", "m", "n", "o", "p", "q", "r", "s",
      "t", "u", "v", "w", "x", "y", "z", "{", "|", "}", "~">>

\* str.encode("ascii"), character by character; a character outside the table has no code
AsciiCode ==
    [ch \in {Printable[k] : k \in 1..95} \cup {"\n", "\r"} |->
        IF ch = "\n" THEN 10
        ELSE IF ch = "\r" THEN 13
        ELSE 31 + CHOOSE k \in 1..95 : Printable[k] = ch]

IsAscii(t) == \A i \in 1..Len(t) : t[i] \in DOMAIN AsciiCode
encode(t) == [i \in 1..Len(t) |-> AsciiCode[t[i]]]

DigitValue == [ch \in Digit |-> CHOOSE d \in 0..9 : Printable[17 + d] = ch]

\* int() of a sequence of digits
RECURSIVE ToInt(_)
ToInt(ds) == IF ds = <<>> THEN 0
             ELSE 10 * ToInt(SubSeq(ds, 1, Len(ds) - 1)) + DigitValue[ds[Len(ds)]]

\* str() of a natural number
RECURSIVE IntText(_)
IntText(n) == IF n < 10 THEN <<Printable[17 + n]>>
              ELSE IntText(n \div 10) \o <<Printable[17 + (n % 10)]>>

\* re.search(pat + r"(\d+)", t): the first position from i where pat and a digit occur
RECURSIVE FindNumber(_, _, _)
FindNumber(t, pat, i) ==
    IF i > Len(t) THEN 0
    ELSE IF StartsWith(t, i, pat) /\ i + Len(pat) <= Len(t) /\ t[i + Len(pat)] \in Digit
    THEN i
    ELSE FindNumber(t, pat, i + 1)

\* int(re.search(pat + r"(\d+)", t).group(1)) inside try / except Exception: 0
NumberAfter(t, pat) ==
    LET i == FindNumber(t, pat, 1)
    IN  IF i = 0 THEN 0
        ELSE ToInt(SubSeq(t, i + Len(pat), DigitsEnd(t, i + Len(pat)) - 1))

\* re.search(cmd + r"(\d+)" + idx, t): the digits must be followed by idx
RECURSIVE FindIndexed(_, _, _, _)
FindIndexed(t, cmd, idx, i) ==
    LET j == FindNumber(t, cmd, i)
    IN  IF j = 0 THEN 0
        ELSE IF StartsWith(t, DigitsEnd(t, j + Len(cmd)), idx) THEN j
        ELSE FindIndexed(t, cmd, idx, j + 1)

IndexedNumberAfter(t, cmd, idx) ==
    LET i == FindIndexed(t, cmd, idx, 1)
    IN  IF i = 0 THEN 0
        ELSE ToInt(SubSeq(t, i + Len(cmd), DigitsEnd(t, i + Len(cmd)) - 1))

TxtTime == <<";", "T", "I", "M", "E", ":">>
TxtLayerHeight == <<";", "L", "a", "y", "e", "r", " ", "h", "e", "i", "g", "h", "t", ":", " ">>
TxtLayerCount == <<";", "L", "A", "Y", "E", "R", "_", "C", "O", "U", "N", "T", ":">>
TxtLayer == <<";", "L", "A", "Y", "E", "R", ":">>

\* [\d\.]* from position i: the position after the run
RECURSIVE DecimalEnd(_, _)
DecimalEnd(t, i) ==
    IF i <= Len(t) /\ t[i] \in Digit \cup {"."} THEN DecimalEnd(t, i + 1) ELSE i

\* re.search(r";Layer height: ([\d\.]+)", t): the first position where the pattern and
\* a digit or a point occur
RECURSIVE FindDecimal(_, _)
FindDecimal(t, i) ==
    IF i > Len(t) THEN 0
    ELSE IF StartsWith(t, i, TxtLayerHeight) /\ DecimalEnd(t, i + 15) > i + 15 THEN i
    ELSE FindDecimal(t, i + 1)

\* float() of a run of digits and points, in thousandths; -1 for ValueError (more than
\* one point, or no digit).  The texts carry at most three decimals, for which
\* int(float(x) * 1000) is the number of thousandths.
Thousandths(r) ==
    LET points == {i \in 1..Len(r) : r[i] = "."}
        p == IF points = {} THEN Len(r) + 1 ELSE CHOOSE i \in points : TRUE
        fr == SubSeq(r, p + 1, Len(r)) \o <<"0", "0", "0">>
    IN  IF Cardinality(points) > 1 \/ Len(r) = Cardinality(points) THEN -1
        ELSE 1000 * ToInt(SubSeq(r, 1, p - 1)) + ToInt(SubSeq(fr, 1, 3))

\* repr() of the float of m thousandths
FloatText(m) ==
    LET fr == m % 1000
    IN  IntText(m \div 1000) \o <<".">> \o
        (IF fr % 100 = 0 THEN IntText(fr \div 100)
         ELSE IF fr % 10 = 0 THEN IntText(fr \div 100) \o IntText((fr \div 10) % 10)
         ELSE IntText(fr \div 100) \o IntText((fr \div 10) % 10) \o IntText(fr % 10))

printtime(g) == NumberAfter(g, TxtTime)
layercount(g) == NumberAfter(g, TxtLayerCount)
bedtemp(g) == IndexedNumberAfter(g, TxtM140S, TxtT0)
nozzletemp0(g) == IndexedNumberAfter(g, TxtM104S, TxtT0)
nozzletemp1(g) == IndexedNumberAfter(g, TxtM104S, <<" ", "T", "1">>)

\* resolution, in thousandths of a millimetre: 0.0 when the comment is absent or float() fails
resolution(g) ==
    LET i == FindDecimal(g, 1)
        m == Thousandths(SubSeq(g, i + 15, DecimalEnd(g, i + 15) - 1))
    IN  IF i = 0 \/ m < 0 THEN 0 ELSE m

\* int(1000 * printInfo.materialLengths[1]) inside try / except IndexError: 0; the
\* lengths are given in millimetres
materialLength1(lengths) == IF Len(lengths) >= 2 THEN lengths[2] ELSE 0

(* ---------------- the container ---------------- *)

\* int.to_bytes(w, "big")
to_bytes_BigEndian(n, w) == [k \in 1..w |-> (n \div (256 ^ (w - k))) % 256]

\* int.to_bytes(w, "little"); it raises OverflowError unless Fits
to_bytes(n, w) == [k \in 1..w |-> (n \div (256 ^ (k - 1))) % 256]
Fits(n, w) == n \div (256 ^ (w - 1)) < 256

\* "xgcode 1.0\n\0"
TxtMagic == <<"x", "g", "c", "o", "d", "e", " ", "1", ".", "0", "\n">>
TxtCRLF == <<"\r", "\n">>
TxtMachineType == <<";", "m", "a", "c", "h", "i", "n", "e", "_", "t", "y", "p", "e", ":", " ", "A", "d", "v", "e", "n", "t", "u", "r", "e", "r", " ", "4", " ", "S", "e", "r", "i", "e", "s">>
TxtMaterial == <<";", "r", "i", "g", "h", "t", "_", "e", "x", "t", "r", "u", "d", "e", "r", "_", "m", "a", "t", "e", "r", "i", "a", "l", ":", " ">>
TxtExtruderTemperature == <<";", "r", "i", "g", "h", "t", "_", "e", "x", "t", "r", "u", "d", "e", "r", "_", "t", "e", "m", "p", "e", "r", "a", "t", "u", "r", "e", ":", " ">>
TxtPlatformTemperature == <<";", "p", "l", "a", "t", "f", "o", "r", "m", "_", "t", "e", "m", "p", "e", "r", "a", "t", "u", "r", "e", ":", " ">>
TxtLayerHeightKey == <<";", "l", "a", "y", "e", "r", "_", "h", "e", "i", "g", "h", "t", ":", " ">>
TxtLayerCountKey == <<";", "l", "a", "y", "e", "r", "_", "c", "o", "u", "n", "t", ":", " ">>
TxtStartGcode == <<";", "s", "t", "a", "r", "t", " ", "g", "c", "o", "d", "e">>
TxtLayerKey == <<";", "l", "a", "y", "e", "r", ":">>

\* re.sub(r";LAYER:\d+", f";layer:{resolution}", t), from position i
RECURSIVE subLayer(_, _, _)
subLayer(t, repl, i) ==
    IF i > Len(t) THEN <<>>
    ELSE IF StartsWith(t, i, TxtLayer) /\ i + 7 <= Len(t) /\ t[i + 7] \in Digit
    THEN repl \o subLayer(t, repl, DigitsEnd(t, i + 7))
    ELSE <<t[i]>> \o subLayer(t, repl, i + 1)

\* the fixed header: offsets 0x00 to 0x39
gxHeader(j, g) ==
    encode(TxtMagic) \o <<0>>
    \o <<0, 0, 0, 0>>
    \o to_bytes(GxHeaderSize, 4)
    \o to_bytes(GxHeaderSize + Len(j.thumb.data), 4)
    \o to_bytes(GxHeaderSize + Len(j.thumb.data), 4)
    \o to_bytes(printtime(g), 4)
    \o to_bytes(j.materialLengths[1], 4)
    \o to_bytes(materialLength1(j.materialLengths), 4)
    \o to_bytes(1, 2)
    \o to_bytes(resolution(g), 2)
    \o <<0, 0>>
    \o to_bytes(3, 2)
    \o to_bytes(0, 2)
    \o to_bytes(bedtemp(g), 2)
    \o to_bytes(nozzletemp0(g), 2)
    \o to_bytes(nozzletemp1(g), 2)
    \o <<254, 255>>

\* the comment lines that follow the thumbnail
gxMetadata(j, g) ==
    TxtMachineType \o TxtCRLF
    \o TxtMaterial \o j.materialNames[1] \o TxtCRLF
    \o TxtExtruderTemperature \o IntText(nozzletemp0(g)) \o TxtCRLF
    \o TxtPlatformTemperature \o IntText(bedtemp(g)) \o TxtCRLF
    \o TxtLayerHeightKey \o FloatText(resolution(g)) \o TxtCRLF
    \o TxtLayerCountKey \o IntText(layercount(g)) \o TxtCRLF
    \o TxtStartGcode \o TxtCRLF

\* an exception inside the try block of the assembly: no snapshot (None has no
\* convertToFormat), a value too large for its field, no material length or name for
\* the first extruder, a character that encode("ascii") refuses
gxRaises(j, g) ==
    \/ ~j.thumb.some
    \/ ~Fits(GxHeaderSize + Len(j.thumb.data), 4)
    \/ ~Fits(printtime(g), 4)
    \/ Len(j.materialLengths) = 0
    \/ ~Fits(j.materialLengths[1], 4)
    \/ ~Fits(materialLength1(j.materialLengths), 4)
    \/ ~Fits(resolution(g), 2)
    \/ ~Fits(bedtemp(g), 2)
    \/ ~Fits(nozzletemp0(g), 2)
    \/ ~Fits(nozzletemp1(g), 2)
    \/ Len(j.materialNames) = 0
    \/ ~IsAscii(j.materialNames[1])
    \/ ~IsAscii(g)

gxcode(j, g) ==
    IF gxRaises(j, g)
    THEN [some |-> FALSE, data |-> <<>>]
    ELSE [some |-> TRUE,
          data |-> gxHeader(j, g) \o j.thumb.data \o encode(gxMetadata(j, g))
                       \o encode(subLayer(g, TxtLayerKey \o FloatText(resolution(g)), 1))]

\* formatGCode: the text is normalized, the debug copy is written (outside any try:
\* Path(os.getenv("temp"), ...) raises TypeError without the variable, open() raises
\* OSError when the file cannot be created), the container is assembled
formatGCode(j) ==
    LET g == normalize(j.gcode)
    IN  IF j.temp = "unset"
        THEN [raised |-> "TypeError", gcode |-> g, gxcode |-> [some |-> FALSE, data |-> <<>>]]
        ELSE IF j.temp = "unwritable"
        THEN [raised |-> "OSError", gcode |-> g, gxcode |-> [some |-> FALSE, data |-> <<>>]]
        ELSE [raised |-> "none", gcode |-> g, gxcode |-> gxcode(j, g)]

\* requestWrite, from the writer's text to _postData: the container if there is one,
\* else the text encoded as ASCII (outside any try)
postData(j) ==
    LET f == formatGCode(j)
    IN  IF f.raised # "none"
        THEN [done |-> TRUE, gcode |-> f.gcode, gxcode |-> f.gxcode, postData |-> <<>>,
              raised |-> f.raised]
        ELSE IF f.gxcode.some
        THEN [done |-> TRUE, gcode |-> f.gcode, gxcode |-> f.gxcode,
              postData |-> f.gxcode.data, raised |-> "none"]
        ELSE IF IsAscii(f.gcode)
        THEN [done |-> TRUE, gcode |-> f.gcode, gxcode |-> f.gxcode,
              postData |-> encode(f.gcode), raised |-> "none"]
        ELSE [done |-> TRUE, gcode |-> f.gcode, gxcode |-> f.gxcode, postData |-> <<>>,
              raised |-> "UnicodeEncodeError"]

(* ---------------- the jobs ---------------- *)

\* the comment and command lines a job's text is made of; each may be absent
TimeLines == {<<>>, <<";", "T", "I", "M", "E", ":", "6", "0", "0", "\n">>,
              <<";", "T", "I", "M", "E", ":", "\n">>}
HeightLines == {<<>>, <<";", "L", "a", "y", "e", "r", " ", "h", "e", "i", "g", "h", "t", ":", " ", "0", ".", "2", "\n">>,
                <<";", "L", "a", "y", "e", "r", " ", "h", "e", "i", "g", "h", "t", ":", " ", "1", ".", "2", ".", "3", "\n">>}
CountLines == {<<>>, <<";", "L", "A", "Y", "E", "R", "_", "C", "O", "U", "N", "T", ":", "5", "0", "\n">>}
BedLines == {<<>>, <<"M", "1", "4", "0", " ", "S", "6", "0", "\n">>}
NozzleLines == {<<>>, <<"M", "1", "0", "4", " ", "S", "2", "1", "0", "\n">>,
                <<"M", "1", "0", "4", " ", "S", "2", "1", "0", ".", "5", " ", "T", "1", "\n">>}
BodyLines == {<<";", "L", "A", "Y", "E", "R", ":", "0", "\n", "G", "0", " ", "X", "1", "\n">>,
              <<";", "deg", "\n">>}

JobTexts == {a \o b \o c \o d \o e \o f : a \in TimeLines, b \in HeightLines,
             c \in CountLines, d \in BedLines, e \in NozzleLines, f \in BodyLines}

\* a snapshot saved as BMP: MaxThumb bytes at most; or no snapshot
ThumbBytes == {0, 255}
RECURSIVE ThumbsOf(_)
ThumbsOf(n) ==
    IF n = 0 THEN {<<>>}
    ELSE LET T == ThumbsOf(n - 1) IN T \cup {Append(t, b) : t \in T, b \in ThumbBytes}
Thumbs == {[some |-> FALSE, data |-> <<>>]}
              \cup {[some |-> TRUE, data |-> t] : t \in ThumbsOf(MaxThumb)}

\* printInfo.materialLengths, one entry per extruder in use, in millimetres, and
\* printInfo.materialNames
Lengths == {<<>>, <<1200>>, <<1200, 0>>}
TxtPLA == <<"P", "L", "A">>
Names(lengths) == [i \in 1..Len(lengths) |-> TxtPLA]

\* the writer produced a text, or it failed and left the stream empty
Jobs ==
    {[gcode |-> g, temp |-> tmp, thumb |-> th, materialLengths |-> ls,
      materialNames |-> Names(ls), writerOk |-> TRUE] :
         g \in JobTexts, tmp \in {"ok", "unset", "unwritable"}, th \in Thumbs, ls \in Lengths}
    \cup
    {[gcode |-> <<>>, temp |-> tmp, thumb |-> th, materialLengths |-> <<>>,
      materialNames |-> <<>>, writerOk |-> FALSE] :
         tmp \in {"ok", "unset", "unwritable"}, th \in Thumbs}

InitEncode ==
    /\ InitDevice
    /\ job \in Jobs
    /\ enc = NoEnc
    /\ runs = <<>>
    /\ preferences = {}
    /\ activeStack = "None"
    /\ cfgLast = NoCfg
    /\ loop = NoLoop
    /\ naming = NoNaming

\* requestWrite on the job: the whole handler, from the busy check to client.connect()
EncodeWrite ==
    /\ ~enc.done
    /\ LET e == postData(job)
       IN  /\ enc' = IF stage = "Ready" THEN e ELSE enc
           /\ \E name \in FileNames :
                 CommitDevice(requestWrite(Ctx, Len(e.postData), name, job.writerOk,
                                           e.raised),
                              "requestWrite", "", rxSince, rxThird)
    /\ UNCHANGED <<job, runs>>
    /\ UNCHANGED cfgVars
    /\ UNCHANGED pureVars

EncodeSpec == InitEncode /\ [][EncodeWrite]_vars

(* ---------------- claims on the payload encoding ---------------- *)

\* pat occurs somewhere in t
Contains(t, pat) == \E i \in 1..Len(t) : StartsWith(t, i, pat)

\* the w bytes of d at offset off hold v, least significant byte first
LittleEndian(d, off, w, v) == \A k \in 1..w : d[off + k] = (v \div (256 ^ (k - 1))) % 256

\* requestWrite ran on the job and started the transfer
TransferStarted ==
    /\ last.op = "requestWrite"
    /\ last.raised = "none"
    /\ last.writeStarted = 1
    /\ last.sent = <<"M28">>
    /\ stage = "SendHeader"
    /\ sock = "connecting"
    /\ file_size = Len(enc.postData)

\* C13: once the debug copy is written, no error of the encoding stage leaves
\* requestWrite and the transfer is started; without a thumbnail, or when the assembly
\* of the container raises, there is no container and the payload is the normalized
\* text, encoded.
C13_FallbackToRawText ==
    (enc.done /\ job.temp = "ok") =>
        /\ TransferStarted
        /\ gxRaises(job, normalize(job.gcode)) =>
              /\ ~enc.gxcode.some
              /\ IsAscii(enc.gcode)
              /\ enc.postData = encode(normalize(job.gcode))

\* the same for the texts that encode("ascii") accepts
FallbackForAsciiText ==
    (enc.done /\ job.temp = "ok" /\ IsAscii(job.gcode)) =>
        /\ TransferStarted
        /\ gxRaises(job, normalize(job.gcode)) =>
              /\ ~enc.gxcode.some
              /\ enc.postData = encode(normalize(job.gcode))

\* C14: when the debug copy cannot be written (no "temp" in the environment, or the
\* file cannot be created) the encoding completes and the transfer starts with the
\* payload it has when the copy is written.
C14_DebugCopyCannotFail ==
    (enc.done /\ job.temp # "ok") =>
        /\ last.raised = "none"
        /\ stage = "SendHeader"
        /\ last.sent = <<"M28">>
        /\ enc.postData = postData([job EXCEPT !.temp = "ok"]).postData

\* the numeric fields of a container d all hold what the job gives, zero for what is
\* absent or does not parse
TxtHeight02 == <<";", "L", "a", "y", "e", "r", " ", "h", "e", "i", "g", "h", "t", ":", " ", "0", ".", "2", "\n">>
FieldsOrZero(d) ==
    /\ LittleEndian(d, 28, 4, IF Contains(job.gcode, TxtTime) THEN printtime(job.gcode) ELSE 0)
    /\ LittleEndian(d, 32, 4, IF Len(job.materialLengths) >= 1 THEN job.materialLengths[1] ELSE 0)
    /\ LittleEndian(d, 36, 4, IF Len(job.materialLengths) >= 2 THEN job.materialLengths[2] ELSE 0)
    /\ LittleEndian(d, 42, 2, IF Contains(job.gcode, TxtHeight02) THEN 200 ELSE 0)
    /\ LittleEndian(d, 50, 2, IF Contains(job.gcode, TxtM140S) THEN bedtemp(normalize(job.gcode)) ELSE 0)
    /\ LittleEndian(d, 52, 2, IF Contains(job.gcode, TxtM104S) THEN nozzletemp0(normalize(job.gcode)) ELSE 0)
    /\ LittleEndian(d, 54, 2, 0)
    /\ Contains(SubSeq(d, GxHeaderSize + Len(job.thumb.data) + 1, Len(d)),
                encode(TxtLayerCountKey
                       \o (IF Contains(job.gcode, TxtLayerCount)
                           THEN IntText(layercount(job.gcode)) ELSE <<"0">>)
                       \o TxtCRLF))

\* C15: with a thumbnail and an ASCII text, whichever numeric source values are absent
\* or do not parse, requestWrite raises nothing, the container is produced and each
\* such field is encoded as zero.
C15_AbsentFieldsAreZero ==
    (enc.done /\ job.temp = "ok" /\ job.thumb.some /\ IsAscii(job.gcode)) =>
        /\ last.raised = "none"
        /\ enc.gxcode.some
        /\ FieldsOrZero(enc.gxcode.data)

\* the same when printInfo has a length and a name for the first extruder
AbsentFieldsAreZeroWithMaterial ==
    (enc.done /\ job.temp = "ok" /\ job.thumb.some /\ IsAscii(job.gcode)
         /\ Len(job.materialLengths) >= 1) =>
        /\ last.raised = "none"
        /\ enc.gxcode.some
        /\ FieldsOrZero(enc.gxcode.data)

\* C16: every container produced starts with the 58-byte header of the table, has the
\* thumbnail verbatim from offset 58 and the metadata text from offset 58 + thumbSize.
C16_HeaderLayout ==
    (enc.done /\ enc.gxcode.some) =>
        LET d == enc.gxcode.data
            thumbSize == Len(job.thumb.data)
        IN  /\ Len(d) >= 58 + thumbSize + Len(TxtMachineType)
            /\ SubSeq(d, 1, 12) = <<120, 103, 99, 111, 100, 101, 32, 49, 46, 48, 10, 0>>
            /\ LittleEndian(d, 12, 4, 0)
            /\ LittleEndian(d, 16, 4, 58)
            /\ LittleEndian(d, 20, 4, 58 + thumbSize)
            /\ LittleEndian(d, 24, 4, 58 + thumbSize)
            /\ LittleEndian(d, 40, 2, 1)
            /\ LittleEndian(d, 44, 2, 0)
            /\ LittleEndian(d, 46, 2, 3)
            /\ LittleEndian(d, 48, 2, 0)
            /\ SubSeq(d, 57, 58) = <<254, 255>>
            /\ FieldsOrZero(d)
            /\ SubSeq(d, 59, 58 + thumbSize) = job.thumb.data
            /\ d[59 + thumbSize] = 59
            /\ SubSeq(d, 59 + thumbSize, 58 + thumbSize + Len(TxtMachineType))
                   = encode(TxtMachineType)

\* a container with an empty thumbnail and a layer height of 0.2 mm
C16_Witness ==
    /\ enc.done
    /\ enc.gxcode.some
    /\ job.thumb.data = <<>>
    /\ Contains(job.gcode, TxtHeight02)
    /\ Contains(job.gcode, TxtTime \o <<"6">>)
    /\ Len(job.materialLengths) = 2
    /\ stage = "SendHeader"

(* ---------------- claims on the normalization ---------------- *)

\* C17: normalizing a normalized text leaves it as it is.
C17_NormalizeIdempotent == Len(runs) = 3 => runs[3] = runs[2]

\* the same for the texts whose normalization leaves no fan speed with a fraction
IdempotentWithoutFanFraction ==
    (Len(runs) = 3 /\ \A i \in 1..Len(runs[2]) : ~FanMatches(runs[2], i)) => runs[3] = runs[2]

\* position i starts a line of t
LineStart(t, i) == i = 1 \/ t[i - 1] = "\n"

\* C18: every "G0 " that starts a line, on any line, becomes "G1 " with the rest of the
\* text as it is after the two other substitutions; no line of the result starts
\* with "G0 ".
C18_EveryG0Rewritten ==
    Len(runs) >= 2 =>
        LET u == subFan(subTemp(runs[1], 1), 1)
            r == runs[2]
        IN  /\ Len(r) = Len(u)
            /\ \A i \in 1..Len(u) :
                  r[i] = IF i >= 2 /\ LineStart(u, i - 1) /\ StartsWith(u, i - 1, TxtG0)
                         THEN "1" ELSE u[i]
            /\ \A i \in 1..Len(r) : ~(LineStart(r, i) /\ StartsWith(r, i, TxtG0))

\* the same for the first line of the text
FirstLineG0Rewritten ==
    Len(runs) >= 2 =>
        LET u == subFan(subTemp(runs[1], 1), 1)
            r == runs[2]
        IN  /\ Len(r) = Len(u)
            /\ \A i \in 1..Len(u) :
                  r[i] = IF i = 2 /\ StartsWith(u, 1, TxtG0) THEN "1" ELSE u[i]
            /\ ~StartsWith(r, 1, TxtG0)

\* the temperature commands: M104 or M140 with an integer temperature
TempCommands == {<<"M", "1", "0", "4", " ", "S", "2">>, <<"M", "1", "4", "0", " ", "S", "6">>}
\* the suffixes of a variant: a decimal fraction or none, an extruder index or none
Fractions == {<<>>, <<".", "5">>}
Indexes == {<<>>, <<" ", "T", "1">>, <<" ", "T", "1", "0">>, <<" ", "T", "1", "0", "0">>}

\* C19: a temperature command with or without a fraction and with or without an
\* extruder index, of any value, is normalized to the command, its integer temperature
\* and " T0", and nothing else.
C19_TempCommandCanonical ==
    \A c \in TempCommands, f \in Fractions, x \in Indexes :
        (Len(runs) >= 2 /\ runs[1] = c \o f \o x) => runs[2] = c \o TxtT0

\* the same for the indexes of one digit
OneDigitIndexCanonical ==
    \A c \in TempCommands, f \in Fractions, x \in {<<>>, <<" ", "T", "1">>} :
        (Len(runs) >= 2 /\ runs[1] = c \o f \o x) => runs[2] = c \o TxtT0

(* ---------------- the settings store ---------------- *)

\* A dict of printer entries is the set of its items [id, address]; the id of a Python
\* dict may be None, written "None"; the keys of the stored JSON object are strings.
PrinterIds == {"printer1", "printer2"}
\* the strings the configuration dialog hands to saveConfig, as texts
AddrOne == <<"1", "0", ".", "0", ".", "0", ".", "1">>
AddrTwo == <<"1", "0", ".", "0", ".", "0", ".", "2">>
AddrBadOctet == <<"1", "0", ".", "0", ".", "0", ".", "2", "5", "6">>
Addresses == {AddrOne, AddrTwo, AddrBadOctet}

\* \w of the regular expressions: letters, digits and the underscore
WordChar(ch) ==
    /\ ch \in DOMAIN AsciiCode
    /\ LET k == AsciiCode[ch]
       IN  \/ k >= 48 /\ k <= 57
           \/ k >= 65 /\ k <= 90
           \/ k >= 97 /\ k <= 122
           \/ k = 95

\* \b before position p of t
WordBoundary(t, p) ==
    (p > 1 /\ p - 1 <= Len(t) /\ WordChar(t[p - 1])) # (p <= Len(t) /\ WordChar(t[p]))

\* 25[0-5]|(2[0-4]|1\d|[1-9]|)\d at position i: the positions after a match
OctetEnds(t, i) ==
    LET at(k) == IF i + k <= Len(t) THEN t[i + k] ELSE ""
    IN  (IF \/ at(0) = "2" /\ at(1) = "5" /\ at(2) \in {"0", "1", "2", "3", "4", "5"}
            \/ at(0) = "2" /\ at(1) \in {"0", "1", "2", "3", "4"} /\ at(2) \in Digit
            \/ at(0) = "1" /\ at(1) \in Digit /\ at(2) \in Digit
         THEN {i + 3} ELSE {})
        \cup (IF at(0) \in Digit \ {"0"} /\ at(1) \in Digit THEN {i + 2} ELSE {})
        \cup (IF at(0) \in Digit THEN {i + 1} ELSE {})

\* one repetition of (octet \.? \b) from position i
GroupEnds(t, i) ==
    {p \in UNION {{e} \cup (IF e <= Len(t) /\ t[e] = "." THEN {e + 1} ELSE {}) :
                  e \in OctetEnds(t, i)} : WordBoundary(t, p)}

\* the positions after n repetitions from the start of t
RECURSIVE GroupsEnds(_, _)
GroupsEnds(t, n) ==
    IF n = 0 THEN {1} ELSE UNION {GroupEnds(t, i) : i \in GroupsEnds(t, n - 1)}

\* validUrl: re.match of ^(octet \.? \b){4}$ ; $ also matches before a last line feed
validUrl(newUrl) ==
    \E p \in GroupsEnds(newUrl, 4) :
        \/ p = Len(newUrl) + 1
        \/ p = Len(newUrl) /\ newUrl[p] = "\n"

\* json.dumps: a key that is None is written as the string "null"
dumps(d) == {[id |-> IF e.id = "None" THEN "null" ELSE e.id, address |-> e.address] : e \in d}
\* json.loads of a stored object: the keys are the strings that were written
loads(v) == v

\* _load_prefs: without a global container stack, an empty dict and None
_load_prefs(prefs, stack) ==
    IF stack = "None"
    THEN [s |-> {}, printer_id |-> "None"]
    ELSE [s |-> loads(prefs), printer_id |-> stack]

\* get_config: the entry of the current printer, else {}
get_config(prefs, stack) ==
    LET l == _load_prefs(prefs, stack)
        hit == {e \in l.s : e.id = l.printer_id}
    IN  IF hit # {}
        THEN [found |-> TRUE, address |-> (CHOOSE e \in hit : TRUE).address]
        ELSE [found |-> FALSE, address |-> <<>>]

\* save_config: s[printer_id] = {"address": address}; the whole dict is stored
save_config(prefs, stack, address) ==
    LET l == _load_prefs(prefs, stack)
    IN  dumps({e \in l.s : e.id # l.printer_id}
                  \cup {[id |-> l.printer_id, address |-> address]})

\* delete_config(printer_id): "None" stands for no argument
delete_config(prefs, stack, printer_id) ==
    LET l == _load_prefs(prefs, stack)
        id == IF printer_id = "None" THEN l.printer_id ELSE printer_id
    IN  IF \E e \in l.s : e.id = id
        THEN [stored |-> dumps({e \in l.s : e.id # id}), returned |-> TRUE]
        ELSE [stored |-> prefs, returned |-> FALSE]

\* init_config has stored "{}"; some printer is active, or none
InitSettings ==
    /\ InitDevice
    /\ job = NoJob
    /\ enc = NoEnc
    /\ runs = <<>>
    /\ preferences = {}
    /\ activeStack \in PrinterIds \cup {"None"}
    /\ cfgLast = NoCfg
    /\ loop = NoLoop
    /\ naming = NoNaming

\* FlashforgeAction.saveConfig: the slot stores the address it is given
SaveConfig ==
    \E address \in Addresses :
        /\ preferences' = save_config(preferences, activeStack, address)
        /\ cfgLast' = [op |-> "save_config", id |-> "None", address |-> address, before |-> preferences,
                       stack |-> activeStack,
                       returned |-> [found |-> TRUE, address |-> address]]
        /\ UNCHANGED <<activeStack, devVars, encVars, pureVars>>

GetConfig ==
    /\ cfgLast' = [op |-> "get_config", id |-> "None", address |-> <<>>, before |-> preferences,
                   stack |-> activeStack,
                   returned |-> get_config(preferences, activeStack)]
    /\ UNCHANGED <<preferences, activeStack, devVars, encVars, pureVars>>

DeleteConfig ==
    \E printer_id \in PrinterIds \cup {"None"} :
        LET r == delete_config(preferences, activeStack, printer_id)
        IN  /\ preferences' = r.stored
            /\ cfgLast' = [op |-> "delete_config", id |-> printer_id, address |-> <<>>,
                           before |-> preferences, stack |-> activeStack,
                           returned |-> [found |-> r.returned, address |-> <<>>]]
            /\ UNCHANGED <<activeStack, devVars, encVars, pureVars>>

\* the user activates another printer, or none is left
ActivateStack ==
    \E id \in PrinterIds \cup {"None"} :
        /\ id # activeStack
        /\ activeStack' = id
        /\ cfgLast' = [op |-> "activate", id |-> "None", address |-> <<>>, before |-> preferences,
                       stack |-> activeStack,
                       returned |-> [found |-> FALSE, address |-> <<>>]]
        /\ UNCHANGED <<preferences, devVars, encVars, pureVars>>

NextSettings ==
    \/ SaveConfig
    \/ GetConfig
    \/ DeleteConfig
    \/ ActivateStack

SettingsSpec == InitSettings /\ [][NextSettings]_vars

\* the entries other than the current identity's that were stored before the last
\* operation are stored as they were
OthersKept ==
    \A e \in cfgLast.before :
        e.id # (IF activeStack = "None" THEN "null" ELSE activeStack) => e \in preferences

\* C20: after save_config(address), get_config returns the address for the current
\* identity and the entries of the other identities are unchanged, with or without
\* an active printer.
C20_SaveIsUpsert ==
    cfgLast.op = "save_config" =>
        /\ get_config(preferences, activeStack) = [found |-> TRUE, address |-> cfgLast.address]
        /\ OthersKept

\* the same while a printer is active
SaveIsUpsertWithStack ==
    (cfgLast.op = "save_config" /\ activeStack # "None") =>
        /\ get_config(preferences, activeStack) = [found |-> TRUE, address |-> cfgLast.address]
        /\ OthersKept

\* C21: every stored address matches the dotted-quad syntax: after any sequence of
\* saveConfig calls validUrl accepts each address in the configuration.
C21_StoredAddressesValid ==
    \A e \in preferences : validUrl(e.address)

\* saveConfig stores what it is given, whatever validUrl says of it
SaveStoresItsArgument ==
    (cfgLast.op = "save_config" /\ activeStack # "None") =>
        [id |-> activeStack, address |-> cfgLast.address] \in preferences

(* ---------------- the loop of sendData ---------------- *)

\* The bytes of the payload are known by their offsets.  loop.transmitted is the
\* local variable of the loop, loop.offered the length of the last slice handed to
\* socket.write, loop.accepted the number of bytes the socket has taken in all;
\* loop.inOrder says that every slice began at the first byte not yet taken, and
\* loop.partial that some write took fewer bytes than it was offered.

\* the payload lengths: whole chunks, one byte more, one byte fewer
PayloadSizes ==
    {q * MSGSIZE + r : q \in 0..MaxFullChunks, r \in {0, 1, MSGSIZE - 1}}

\* len(data[transmitted : transmitted + MSGSIZE])
SliceLen(size, transmitted) ==
    IF transmitted >= size THEN 0 ELSE Min(MSGSIZE, size - transmitted)

\* what socket.write returns for a slice of n bytes: all of it, all but one byte, or
\* one byte; a write that takes nothing leaves the loop where it is
WriteReturns(n) == {k \in {1, n - 1, n} : k >= 1 /\ k <= n}

\* one pass of the loop that adds the length of the slice, whatever write returned
writeStep_IgnoresReturn(l, k) ==
    LET n == SliceLen(l.size, l.transmitted)
    IN  [l EXCEPT !.offered = n,
                  !.inOrder = @ /\ l.transmitted = l.accepted,
                  !.accepted = @ + k,
                  !.partial = @ \/ k < n,
                  !.transmitted = @ + n]

\* one pass of the loop: transmitted += socket.write(slice), the socket taking k bytes
writeStep(l, k) ==
    LET n == SliceLen(l.size, l.transmitted)
    IN  [l EXCEPT !.offered = n,
                  !.inOrder = @ /\ l.transmitted = l.accepted,
                  !.accepted = @ + k,
                  !.partial = @ \/ k < n,
                  !.transmitted = @ + k]

\* sendData has been called with a payload and is about to enter its loop
InitSendData ==
    /\ InitDevice
    /\ job = NoJob
    /\ enc = NoEnc
    /\ runs = <<>>
    /\ preferences = {}
    /\ activeStack = "None"
    /\ cfgLast = NoCfg
    /\ loop \in {[NoLoop EXCEPT !.running = TRUE, !.size = n] : n \in PayloadSizes}
    /\ naming = NoNaming

\* while transmitted < len(data): one write
SendDataWrite ==
    /\ loop.running
    /\ loop.transmitted < loop.size
    /\ \E k \in WriteReturns(SliceLen(loop.size, loop.transmitted)) :
          loop' = writeStep(loop, k)
    /\ UNCHANGED <<devVars, encVars, cfgVars, naming>>

\* the loop condition fails and sendData returns
SendDataReturn ==
    /\ loop.running
    /\ ~(loop.transmitted < loop.size)
    /\ loop' = [loop EXCEPT !.running = FALSE]
    /\ UNCHANGED <<devVars, encVars, cfgVars, naming>>

NextSendData ==
    \/ SendDataWrite
    \/ SendDataReturn

\* the loop runs on: nothing else runs on the thread while sendData has not returned
SendDataSpec == InitSendData /\ [][NextSendData]_vars /\ WF_vars(NextSendData)

TxtDNX == <<"D", "N", "X", "_">>
TxtGx == <<"g", "x">>
TxtGcode == <<"g", "c", "o", "d", "e">>

\* the components of a path: the runs of characters between slashes from position i
\* on, cur being the component collected so far
RECURSIVE Components(_, _, _)
Components(t, i, cur) ==
    IF i > Len(t) THEN <<cur>>
    ELSE IF t[i] = "/" THEN <<cur>> \o Components(t, i + 1, <<>>)
    ELSE Components(t, i + 1, Append(cur, t[i]))

\* Path(file_name).name for a path written with slashes: the last component that is
\* neither empty nor ".", or the empty string when there is none
PathName(t) ==
    LET parts == SelectSeq(Components(t, 1, <<>>), LAMBDA c : c # <<>> /\ c # <<".">>)
    IN  IF parts = <<>> THEN <<>> ELSE parts[Len(parts)]

\* str.replace(old, "", 1): the first occurrence of old is removed
RECURSIVE RemoveFirst(_, _, _)
RemoveFirst(t, old, i) ==
    IF i + Len(old) - 1 > Len(t) THEN t
    ELSE IF StartsWith(t, i, old)
    THEN SubSeq(t, 1, i - 1) \o SubSeq(t, i + Len(old), Len(t))
    ELSE RemoveFirst(t, old, i + 1)

\* lines 181-192 of requestWrite: the name from the file name given, or from the job
\* name when none is given, then "DNX_" removed and the output format appended
targetName(file_name, jobName, gx) ==
    LET base == IF file_name # <<>> THEN PathName(file_name) ELSE jobName \o <<".">>
    IN  RemoveFirst(base, TxtDNX, 1) \o <<".">> \o (IF gx THEN TxtGx ELSE TxtGcode)

NamePieces == {<<"a">>, <<"/">>, <<".">>, TxtDNX, TxtGx}

RECURSIVE NamesOf(_)
NamesOf(n) ==
    IF n = 0 THEN {<<>>}
    ELSE LET T == NamesOf(n - 1) IN T \cup {t \o p : t \in T, p \in NamePieces}

\* requestWrite is given a file name, or none and the job has a name; formatGCode
\* has made a container (gx) or not
InitNaming ==
    /\ InitDevice
    /\ job = NoJob
    /\ enc = NoEnc
    /\ runs = <<>>
    /\ preferences = {}
    /\ activeStack = "None"
    /\ cfgLast = NoCfg
    /\ loop = NoLoop
    /\ naming \in {[NoNaming EXCEPT !.file_name = f, !.gx = g] :
                      f \in NamesOf(MaxNameParts) \ {<<>>}, g \in BOOLEAN}
                  \cup {[NoNaming EXCEPT !.jobName = j, !.gx = g] :
                           j \in NamesOf(MaxNameParts - 1), g \in BOOLEAN}

MakeName ==
    /\ ~naming.done
    /\ naming' = [naming EXCEPT !.done = TRUE,
                                !.target = targetName(naming.file_name, naming.jobName,
                                                      naming.gx)]
    /\ UNCHANGED <<devVars, encVars, cfgVars, loop>>

NamingSpec == InitNaming /\ [][MakeName]_vars

EndsWith(t, suffix) ==
    Len(t) >= Len(suffix) /\ StartsWith(t, Len(t) - Len(suffix) + 1, suffix)

\* the name ends in ".gx" exactly for a container and in ".gcode" exactly for raw text
ExtensionOfPayload ==
    /\ EndsWith(naming.target, <<".">> \o TxtGx) <=> naming.gx
    /\ EndsWith(naming.target, <<".">> \o TxtGcode) <=> ~naming.gx

\* C27: the target name ends in ".gx" exactly when the payload is the container and
\* in ".gcode" exactly when it is the raw text, for a name given by the caller and
\* for one made from the job name, and it has no directory component.
C27_NameReflectsPayload ==
    naming.done =>
        /\ ExtensionOfPayload
        /\ ~Contains(naming.target, <<"/">>)

\* the extension is right for every name
ExtensionAlwaysReflectsPayload ==
    naming.done => ExtensionOfPayload

\* a name given by the caller loses its directories
GivenNameHasNoDirectory ==
    (naming.done /\ naming.file_name # <<>>) => ~Contains(naming.target, <<"/">>)

====
